---- MODULE Spec2Model ----
(***************************************************************************)
(* Flowtime, src/services/statistics.rs: Statistics::load_days.            *)
(*                                                                         *)
(* The statistics file is an XML document; load_days reads it through an   *)
(* xml::EventReader and folds its events into the object's all_days        *)
(* (RefCell<Vec<Day>>) and today (OnceCell<Day>).  One action per event    *)
(* kind of the `for event in reader` loop, one for the call itself (file   *)
(* open, locals) and one for the code after the loop.                      *)
(***************************************************************************)
EXTENDS Integers, Sequences, FiniteSets, TLC

\* ------------------------------------------------------------------ bounds
\* Number of children of the root element in a document of the model.
MaxItems == 2
\* Number of load_days calls on the one Statistics object.
MaxLoads == 2

\* ----------------------------------------------------------------- options
\* Option<T> / OnceCell<T>: the empty sequence is None, <<x>> is Some(x).
None == <<>>
Some(x) == <<x>>

\* ------------------------------------------------------------ glib::DateTime
\* The text of a date attribute, split at its separators:
\* "<year>-<month>-<day>T<hour>:00:00<tz>".
IsoText(y, m, d, h, tz) == [year |-> y, month |-> m, day |-> d, hour |-> h, tz |-> tz]

IsLeap(y) == (y % 4 = 0 /\ y % 100 # 0) \/ y % 400 = 0

DaysInMonth(y, m) ==
    IF m = 2 THEN (IF IsLeap(y) THEN 29 ELSE 28)
    ELSE IF m \in {4, 6, 9, 11} THEN 30 ELSE 31

RECURSIVE DaysBefore(_, _)
DaysBefore(y, m) == IF m <= 1 THEN 0 ELSE DaysBefore(y, m - 1) + DaysInMonth(y, m - 1)

\* A DateTime, by the accessors the loader reads (year, month, day_of_year)
\* and the time of day that tells two instants of one day apart.
DateTime(y, m, d, h) ==
    [year |-> y, month |-> m, day_of_year |-> DaysBefore(y, m) + d, hour |-> h]

\* glib::DateTime::from_iso8601(text, None).ok(): None when a field is out
\* of range or when the text names no time zone (there is no default zone).
FromIso8601(text) ==
    IF /\ text.year \in 1..9999
       /\ text.month \in 1..12
       /\ text.day \in 1..DaysInMonth(text.year, text.month)
       /\ text.hour \in 0..23
       /\ text.tz = "Z"
    THEN Some(DateTime(text.year, text.month, text.day, text.hour))
    ELSE None

\* fn same_day(one, other)
same_day(one, other) ==
    /\ one.day_of_year = other.day_of_year
    /\ one.month = other.month
    /\ one.year = other.year

\* models::Day::new(date, worktime, breaktime) and its three accessors.
DayNew(d, w, b) == [date |-> d, worktime |-> w, breaktime |-> b]

\* ------------------------------------------------------------- u32 parsing
\* u32::MAX is 4294967295 = U32MaxDiv10 * 10 + U32MaxMod10.
U32MaxDiv10 == 429496729
U32MaxMod10 == 5

Digits == {"0", "1", "2", "3", "4", "5", "6", "7", "8", "9"}

DigitVal(c) ==
    CASE c = "0" -> 0 [] c = "1" -> 1 [] c = "2" -> 2 [] c = "3" -> 3 [] c = "4" -> 4
      [] c = "5" -> 5 [] c = "6" -> 6 [] c = "7" -> 7 [] c = "8" -> 8 [] c = "9" -> 9

\* The checked accumulation of <u32 as FromStr>: None on a non-digit and when
\* acc * 10 + digit would exceed u32::MAX; acc is the value of the digits
\* read so far.
RECURSIVE ParseDigits(_, _)
ParseDigits(chars, acc) ==
    IF chars = <<>> THEN Some(acc)
    ELSE IF Head(chars) \notin Digits THEN None
    ELSE LET digit == DigitVal(Head(chars))
         IN  IF acc > U32MaxDiv10 \/ (acc = U32MaxDiv10 /\ digit > U32MaxMod10)
             THEN None
             ELSE ParseDigits(Tail(chars), acc * 10 + digit)

\* content.parse::<u32>(): content is the sequence of the text's characters.
\* Empty text and a lone sign fail; one leading "+" is accepted, "-" is not.
ParseU32(content) ==
    LET digits == IF content # <<>> /\ Head(content) = "+" THEN Tail(content) ELSE content
    IN  IF digits = <<>> THEN None ELSE ParseDigits(digits, 0)

\* ------------------------------------------------------- StatisticsElement
\* StatisticsElement::from_name
from_name(name) ==
    CASE name = "day" -> Some("Day")
      [] name = "worktime" -> Some("Worktime")
      [] name = "breaktime" -> Some("Breaktime")
      [] name = "statistics" -> Some("Statistics")
      [] OTHER -> None

\* ---------------------------------------------------------------- XML events
\* xml::reader::XmlEvent, by the fields the loader reads.
Event(type, name, attributes, content) ==
    [type |-> type, name |-> name, attributes |-> attributes, content |-> content]

Attribute(name, value) == [name |-> name, value |-> value]

\* A document node: an element with attributes and children, or a run of text.
Element(name, attributes, kids) ==
    [kind |-> "element", name |-> name, attributes |-> attributes,
     content |-> <<>>, kids |-> kids]

Text(content) ==
    [kind |-> "text", name |-> "", attributes |-> <<>>, content |-> content, kids |-> <<>>]

\* Text made of white space only: the reader reports it as XmlEvent::Whitespace.
Blank == [kind |-> "blank", name |-> "", attributes |-> <<>>, content |-> <<" ">>, kids |-> <<>>]

\* The events the reader yields for a node and for a sequence of nodes.
RECURSIVE NodeEvents(_)
RECURSIVE NodesEvents(_)
NodeEvents(n) ==
    CASE n.kind = "text" -> <<Event("Characters", "", <<>>, n.content)>>
      [] n.kind = "blank" -> <<Event("Whitespace", "", <<>>, n.content)>>
      [] OTHER -> <<Event("StartElement", n.name, n.attributes, <<>>)>>
                  \o NodesEvents(n.kids)
                  \o <<Event("EndElement", n.name, <<>>, <<>>)>>

NodesEvents(ns) == IF ns = <<>> THEN <<>> ELSE NodeEvents(Head(ns)) \o NodesEvents(Tail(ns))

\* The whole event sequence of a well-formed document with root element root.
DocumentEvents(root) ==
    <<Event("StartDocument", "", <<>>, <<>>)>>
    \o NodeEvents(root)
    \o <<Event("EndDocument", "", <<>>, <<>>)>>

\* ------------------------------------------------- the loader's event steps
\* The state the event loop reads and writes: the four locals of load_days
\* (worktime, breaktime, date, element_stack) and the object's two fields.
LoaderState(w, b, d, stack, days, cell) ==
    [worktime |-> w, breaktime |-> b, date |-> d, element_stack |-> stack,
     all_days |-> days, today |-> cell]

\* attributes.into_iter().find(|a| a.name.local_name == "date")
RECURSIVE FindAttribute(_, _)
FindAttribute(attributes, name) ==
    IF attributes = <<>> THEN None
    ELSE IF Head(attributes).name = name THEN Some(Head(attributes))
    ELSE FindAttribute(Tail(attributes), name)

\* element_stack.last().unwrap_or(&StatisticsElement::None)
LastOrNone(stack) == IF stack = <<>> THEN "None" ELSE stack[Len(stack)]

\* The stack left by element_stack.pop(): popping an empty Vec leaves it empty.
Popped(stack) == IF stack = <<>> THEN <<>> ELSE SubSeq(stack, 1, Len(stack) - 1)

\* A faulty cell: a later set replaces the value (last match wins).
OnceCellOverwrite(cell, value) == Some(value)

\* OnceCell::set: stores the value only while the cell is empty; load_days
\* drops the Err that a full cell returns.
OnceCellSet(cell, value) == IF cell = None THEN Some(value) ELSE cell

\* A faulty start branch: a date is captured only while none is held.
OnStartElementKeepsFirstDate(s, name, attributes) ==
    LET tag == from_name(name)
    IN  IF tag = None THEN s
        ELSE IF tag = Some("Day")
        THEN LET pushed == [s EXCEPT !.element_stack = Append(@, "Day")]
                 day_date == FindAttribute(attributes, "date")
             IN  IF day_date = None \/ s.date # None THEN pushed
                 ELSE [pushed EXCEPT !.date = FromIso8601(day_date[1].value)]
        ELSE [s EXCEPT !.element_stack = Append(@, tag[1])]

\* A faulty start branch: a day with a date attribute pushes its tag twice.
OnStartElementPushTwice(s, name, attributes) ==
    LET tag == from_name(name)
    IN  IF tag = None THEN s
        ELSE IF tag = Some("Day")
        THEN LET pushed == [s EXCEPT !.element_stack = Append(@, "Day")]
                 day_date == FindAttribute(attributes, "date")
             IN  IF day_date = None THEN pushed
                 ELSE [pushed EXCEPT !.date = FromIso8601(day_date[1].value),
                                     !.element_stack = Append(@, "Day")]
        ELSE [s EXCEPT !.element_stack = Append(@, tag[1])]

\* A faulty start branch: a day element without date attribute is passed
\* over before its tag is pushed.
OnStartElementSkipPush(s, name, attributes) ==
    LET tag == from_name(name)
    IN  IF tag = None THEN s
        ELSE IF tag = Some("Day")
        THEN LET day_date == FindAttribute(attributes, "date")
             IN  IF day_date = None THEN s
                 ELSE [s EXCEPT !.element_stack = Append(@, "Day"),
                                !.date = FromIso8601(day_date[1].value)]
        ELSE [s EXCEPT !.element_stack = Append(@, tag[1])]

\* Ok(XmlEvent::StartElement { name, attributes, .. })
OnStartElement(s, name, attributes) ==
    LET tag == from_name(name)
    IN  IF tag = None THEN s
        ELSE IF tag = Some("Day")
        THEN LET pushed == [s EXCEPT !.element_stack = Append(@, "Day")]
                 day_date == FindAttribute(attributes, "date")
             IN  IF day_date = None THEN pushed
                 ELSE [pushed EXCEPT !.date = FromIso8601(day_date[1].value)]
        ELSE [s EXCEPT !.element_stack = Append(@, tag[1])]

\* A faulty characters branch: a parsed count is stored in both accumulators.
OnCharactersBoth(s, content) ==
    LET current_element == LastOrNone(s.element_stack)
        count == ParseU32(content)
    IN  IF current_element \in {"Worktime", "Breaktime"} /\ count # None
        THEN [s EXCEPT !.worktime = count[1], !.breaktime = count[1]]
        ELSE s

\* Ok(XmlEvent::Characters(content))
OnCharacters(s, content) ==
    LET current_element == LastOrNone(s.element_stack)
        count == ParseU32(content)
    IN  CASE current_element = "Worktime" ->
                IF count = None THEN s ELSE [s EXCEPT !.worktime = count[1]]
          [] current_element = "Breaktime" ->
                IF count = None THEN s ELSE [s EXCEPT !.breaktime = count[1]]
          [] OTHER -> s

\* A faulty end branch: the captured date survives the finalization.
OnEndElementKeepsDate(s, ref_now) ==
    LET current_element == LastOrNone(s.element_stack)
        popped == [s EXCEPT !.element_stack = Popped(@)]
    IN  IF current_element # "Day" THEN popped
        ELSE IF s.date = None THEN popped
        ELSE LET day == DayNew(s.date[1], s.worktime, s.breaktime)
             IN  [popped EXCEPT
                    !.today = IF same_day(day.date, ref_now) THEN OnceCellSet(@, day) ELSE @,
                    !.all_days = Append(@, day),
                    !.worktime = 0,
                    !.breaktime = 0]

\* A faulty end branch: a day without a date is skipped before the pop.
OnEndElementSkipBeforePop(s, ref_now) ==
    LET current_element == LastOrNone(s.element_stack)
        popped == [s EXCEPT !.element_stack = Popped(@)]
    IN  IF current_element # "Day" THEN popped
        ELSE IF s.date = None THEN s
        ELSE LET day == DayNew(s.date[1], s.worktime, s.breaktime)
             IN  [popped EXCEPT
                    !.today = IF same_day(day.date, ref_now) THEN OnceCellSet(@, day) ELSE @,
                    !.all_days = Append(@, day),
                    !.worktime = 0,
                    !.breaktime = 0,
                    !.date = None]

\* A faulty end branch: the accumulators are reset also when the date is
\* missing.
OnEndElementResetOnSkip(s, ref_now) ==
    LET current_element == LastOrNone(s.element_stack)
        popped == [s EXCEPT !.element_stack = Popped(@)]
    IN  IF current_element # "Day" THEN popped
        ELSE IF s.date = None THEN [popped EXCEPT !.worktime = 0, !.breaktime = 0]
        ELSE LET day == DayNew(s.date[1], s.worktime, s.breaktime)
             IN  [popped EXCEPT
                    !.today = IF same_day(day.date, ref_now) THEN OnceCellSet(@, day) ELSE @,
                    !.all_days = Append(@, day),
                    !.worktime = 0,
                    !.breaktime = 0,
                    !.date = None]

\* Ok(XmlEvent::EndElement { .. }); ref_now is the local `today` of load_days.
OnEndElement(s, ref_now) ==
    LET current_element == LastOrNone(s.element_stack)
        popped == [s EXCEPT !.element_stack = Popped(@)]
    IN  IF current_element # "Day" THEN popped
        ELSE IF s.date = None THEN popped
        ELSE LET day == DayNew(s.date[1], s.worktime, s.breaktime)
             IN  [popped EXCEPT
                    !.today = IF same_day(day.date, ref_now) THEN OnceCellSet(@, day) ELSE @,
                    !.all_days = Append(@, day),
                    !.worktime = 0,
                    !.breaktime = 0,
                    !.date = None]

\* A faulty fallback: the synthesized Day takes the accumulators' values.
PostParseAccumulated(s, ref_now) ==
    IF s.today = None
    THEN LET day == DayNew(ref_now, s.worktime, s.breaktime)
         IN  [s EXCEPT !.today = Some(day), !.all_days = Append(@, day)]
    ELSE s

\* A faulty fallback: the synthesized Day is made today and not pushed.
PostParseNoPush(s, ref_now) ==
    IF s.today = None
    THEN [s EXCEPT !.today = Some(DayNew(ref_now, 0, 0))]
    ELSE s

\* A faulty fallback: the synthesized Day is pushed whether or not today is
\* set.
PostParseAlways(s, ref_now) ==
    LET day == DayNew(ref_now, 0, 0)
    IN  [s EXCEPT !.today = OnceCellSet(@, day), !.all_days = Append(@, day)]

\* The code after the loop: a Day for the reference instant when no today
\* has been set.
PostParse(s, ref_now) ==
    IF s.today = None
    THEN LET day == DayNew(ref_now, 0, 0)
         IN  [s EXCEPT !.today = OnceCellSet(@, day), !.all_days = Append(@, day)]
    ELSE s

\* One iteration of `for event in reader` on a delivered event.
OnEvent(s, event, ref_now) ==
    CASE event.type = "StartElement" -> OnStartElement(s, event.name, event.attributes)
      [] event.type = "Characters" -> OnCharacters(s, event.content)
      [] event.type = "EndElement" -> OnEndElement(s, ref_now)
      [] OTHER -> s

\* ------------------------------------------------ the documents of the model
DateToday == IsoText(2026, 11, 1, 9, "Z")
DateLastYear == IsoText(2025, 11, 1, 9, "Z")
DateBad == IsoText(2026, 13, 1, 9, "Z")

\* The instant now_utc() returns in the loads of the model: the day of
\* DateToday, a year after DateLastYear, at a later hour than both.
NowSet == {DateTime(2026, 11, 1, 12)}

Worktime(chars) == Element("worktime", <<>>, <<Text(chars)>>)
Breaktime(chars) == Element("breaktime", <<>>, <<Text(chars)>>)
Note(kids) == Element("note", <<>>, kids)
Day(attributes, kids) == Element("day", attributes, kids)

\* The attribute lists of the day elements: no date attribute, a date of
\* the reference day, the same day a year before, an unparsable date.
NoDate == <<Attribute("id", DateToday)>>
DayAttributes ==
    {NoDate,
     <<Attribute("id", DateLastYear), Attribute("date", DateToday)>>,
     <<Attribute("date", DateLastYear)>>,
     <<Attribute("date", DateBad)>>}

DayKids ==
    {<<>>,
     <<Worktime(<<"5">>), Blank, Breaktime(<<"1", "2">>)>>}

\* The children of the root element the model draws from: day elements as
\* the file format has them; a day whose counts do not parse (letters, a
\* number above u32::MAX); a day with two worktime children; a day holding
\* text and an unrecognized element; day elements nested in day elements;
\* unrecognized elements (empty, holding text, holding a worktime element);
\* a worktime element and text outside any day.
Items ==
    {Day(a, k) : a \in DayAttributes, k \in DayKids}
    \cup {Day(<<Attribute("date", DateLastYear)>>,
              <<Worktime(<<"a", "b", "c">>),
                Breaktime(<<"4", "2", "9", "4", "9", "6", "7", "2", "9", "6">>)>>),
          Day(<<Attribute("date", DateToday)>>, <<Worktime(<<"5">>), Worktime(<<"1", "2">>)>>),
          Day(<<Attribute("date", DateLastYear)>>, <<Text(<<"7">>), Note(<<>>)>>),
          Day(<<Attribute("date", DateToday)>>, <<Day(<<Attribute("date", DateLastYear)>>, <<>>)>>),
          Day(<<Attribute("date", DateLastYear)>>, <<Day(<<Attribute("date", DateBad)>>, <<>>)>>),
          Note(<<>>),
          Note(<<Text(<<"5">>)>>),
          Note(<<Worktime(<<"5">>)>>),
          Worktime(<<"5">>),
          Text(<<"7">>)}

RECURSIVE SeqsUpTo(_, _)
SeqsUpTo(S, n) ==
    IF n = 0 THEN {<<>>}
    ELSE LET shorter == SeqsUpTo(S, n - 1)
         IN  shorter \cup {Append(q, x) : q \in shorter, x \in S}

\* The statistics files of the model: a statistics root with up to MaxItems
\* children.
Documents == {Element("statistics", <<>>, kids) : kids \in SeqsUpTo(Items, MaxItems)}

\* -------------------------------------------------------------------- state
VARIABLES
    all_days,       \* imp::Statistics.all_days
    today,          \* imp::Statistics.today (OnceCell)
    file,           \* the document in statistics.xml
    opened,         \* whether File::open succeeded in the current call
    reader,         \* the events the EventReader has still to yield
    ended_by,       \* the event that ended the reader's stream in this call
    now,            \* local `today`: the reference instant of this call
    worktime,       \* local
    breaktime,      \* local
    date,           \* local
    element_stack,  \* local
    pc,             \* where the current load_days call is
    calls           \* number of load_days calls made

vars == <<all_days, today, file, opened, reader, ended_by, now, worktime, breaktime, date,
          element_stack, pc, calls>>

Current == LoaderState(worktime, breaktime, date, element_stack, all_days, today)

\* The loop's and the object's variables take the values of s.
Becomes(s) ==
    /\ worktime' = s.worktime
    /\ breaktime' = s.breaktime
    /\ date' = s.date
    /\ element_stack' = s.element_stack
    /\ all_days' = s.all_days
    /\ today' = s.today

Init ==
    /\ all_days = <<>>
    /\ today = None
    /\ file \in Documents
    /\ opened = TRUE
    /\ reader = <<>>
    /\ ended_by = "none"
    /\ now \in NowSet
    /\ worktime = 0
    /\ breaktime = 0
    /\ date = None
    /\ element_stack = <<>>
    /\ pc = "idle"
    /\ calls = 0

\* A faulty open: the failure is noticed only after the fallback has run.
OpenFailedAfterFallback ==
    /\ pc' = "panicked"
    /\ Becomes(PostParse(Current, now))
    /\ UNCHANGED <<file, reader, ended_by, now>>

\* File::open(xml_file).unwrap() on a file that cannot be opened: the call
\* panics on the spot.
OpenFailed ==
    /\ pc' = "panicked"
    /\ UNCHANGED <<all_days, today, file, reader, ended_by, now, worktime, breaktime,
                   date, element_stack>>

\* A call of load_days up to the loop: the file is opened, the reader made,
\* the reference instant taken and the locals initialised.
LoadDays ==
    /\ pc \in {"idle", "returned"}
    /\ calls < MaxLoads
    /\ calls' = calls + 1
    /\ \E ok \in BOOLEAN, instant \in NowSet :
         /\ opened' = ok
         /\ IF ~ok
            THEN OpenFailed
            ELSE /\ reader' = DocumentEvents(file)
                 /\ ended_by' = "none"
                 /\ now' = instant
                 /\ worktime' = 0
                 /\ breaktime' = 0
                 /\ date' = None
                 /\ element_stack' = <<>>
                 /\ pc' = "loop"
                 /\ UNCHANGED <<all_days, today, file>>

\* A faulty loop: character data stays at the head of the reader, so the
\* iteration that takes it runs again.
YieldsAgain(type) ==
    /\ pc = "loop"
    /\ reader # <<>>
    /\ Head(reader).type = type
    /\ reader' = IF type = "Characters" THEN reader ELSE Tail(reader)

\* The reader yields its next event, of the given type.
Yields(type) ==
    /\ pc = "loop"
    /\ reader # <<>>
    /\ Head(reader).type = type
    /\ reader' = Tail(reader)

StartDocument ==
    /\ Yields("StartDocument")
    /\ UNCHANGED <<all_days, today, file, opened, ended_by, now, worktime, breaktime, date,
                   element_stack, pc, calls>>

StartElement ==
    /\ Yields("StartElement")
    /\ Becomes(OnStartElement(Current, Head(reader).name, Head(reader).attributes))
    /\ UNCHANGED <<file, opened, ended_by, now, pc, calls>>

Characters ==
    /\ Yields("Characters")
    /\ Becomes(OnCharacters(Current, Head(reader).content))
    /\ UNCHANGED <<file, opened, ended_by, now, pc, calls>>

EndElement ==
    /\ Yields("EndElement")
    /\ Becomes(OnEndElement(Current, now))
    /\ UNCHANGED <<file, opened, ended_by, now, pc, calls>>

\* The `_ => {}` arm: white space between elements.
Whitespace ==
    /\ Yields("Whitespace")
    /\ UNCHANGED <<all_days, today, file, opened, ended_by, now, worktime, breaktime, date,
                   element_stack, pc, calls>>

\* Ok(XmlEvent::EndDocument): the assertion, then the iterator is exhausted.
EndDocument ==
    /\ Yields("EndDocument")
    /\ ended_by' = "EndDocument"
    /\ pc' = IF element_stack = <<>> THEN "post" ELSE "panicked"
    /\ UNCHANGED <<all_days, today, file, opened, now, worktime, breaktime, date,
                   element_stack, calls>>

\* Err(e): the file is cut or corrupt at the reader's position.  The error
\* is printed; the reader yields nothing after it.
ParseError ==
    /\ pc = "loop"
    /\ reader # <<>>
    /\ reader' = <<>>
    /\ ended_by' = "Err"
    /\ pc' = "post"
    /\ UNCHANGED <<all_days, today, file, opened, now, worktime, breaktime, date,
                   element_stack, calls>>

\* The code after the loop, up to the return of load_days.
AfterLoop ==
    /\ pc = "post"
    /\ Becomes(PostParse(Current, now))
    /\ pc' = "returned"
    /\ UNCHANGED <<file, opened, reader, ended_by, now, calls>>

Next ==
    \/ LoadDays
    \/ StartDocument
    \/ StartElement
    \/ Characters
    \/ EndElement
    \/ Whitespace
    \/ EndDocument
    \/ ParseError
    \/ AfterLoop

Spec == Init /\ [][Next]_vars

\* --------------------------------------------- load_days as a function
RECURSIVE FoldEvents(_, _, _)
FoldEvents(s, events, ref_now) ==
    IF events = <<>> THEN s
    ELSE FoldEvents(OnEvent(s, Head(events), ref_now), Tail(events), ref_now)

\* What a load of the well-formed document with root element root leaves in
\* a fresh Statistics object, the reader reporting no error.
LoadOf(root, ref_now) ==
    PostParse(FoldEvents(LoaderState(0, 0, None, <<>>, <<>>, None),
                         DocumentEvents(root), ref_now),
              ref_now)

\* ------------------------------------------ the document, as the claims see it
\* The nodes of a forest in document order (an element before its children).
RECURSIVE Descendants(_)
Descendants(nodes) ==
    IF nodes = <<>> THEN <<>>
    ELSE <<Head(nodes)>> \o Descendants(Head(nodes).kids) \o Descendants(Tail(nodes))

IsElement(n) == n.kind = "element"
IsDay(n) == IsElement(n) /\ n.name = "day"
IsCount(n) == IsElement(n) /\ n.name \in {"worktime", "breaktime"}
IsUnrecognized(n) == IsElement(n) /\ from_name(n.name) = None

\* The date of a day element: None when the attribute is missing or unparsable.
DateOf(n) ==
    LET a == FindAttribute(n.attributes, "date")
    IN  IF a = None THEN None ELSE FromIso8601(a[1].value)

HasDate(n) == DateOf(n) # None

\* A day element as the file format has it: its children are worktime and
\* breaktime elements holding text, and white space.
IsPlainDay(n) ==
    /\ IsDay(n)
    /\ \A i \in DOMAIN n.kids :
         \/ n.kids[i].kind = "blank"
         \/ /\ IsCount(n.kids[i])
            /\ \A j \in DOMAIN n.kids[i].kids : n.kids[i].kids[j].kind = "text"

\* The text contents of the children of n named name, in document order.
RECURSIVE TextsOf(_)
TextsOf(nodes) ==
    IF nodes = <<>> THEN <<>>
    ELSE (IF Head(nodes).kind = "text" THEN <<Head(nodes).content>> ELSE <<>>)
         \o TextsOf(Tail(nodes))

CountTexts(n, name) ==
    TextsOf(Descendants(SelectSeq(n.kids, LAMBDA k : IsElement(k) /\ k.name = name)))

\* The count a day element states for name: its last parsable content, 0
\* when it has none.
RECURSIVE LastParsed(_)
LastParsed(texts) ==
    IF texts = <<>> THEN 0
    ELSE IF ParseU32(texts[Len(texts)]) # None THEN ParseU32(texts[Len(texts)])[1]
    ELSE LastParsed(SubSeq(texts, 1, Len(texts) - 1))

OwnCount(n, name) == LastParsed(CountTexts(n, name))

\* A first load of the whole document has reached pc value at.
FirstLoadAt(at) == pc = at /\ calls = 1 /\ ended_by = "EndDocument"

Min(S) == CHOOSE x \in S : \A y \in S : x <= y

\* The indexes of the entries of days on the calendar day of ref_now.
Matching(days, ref_now) == {i \in DOMAIN days : same_day(days[i].date, ref_now)}

\* ------------------------------------------------------------------- claims
\* The day elements of the document with a present and parsable date.
DatedDays == SelectSeq(Descendants(<<file>>), LAMBDA n : IsDay(n) /\ HasDate(n))

\* C1: after a first load of a well-formed document, all_days holds as many
\* entries as the document has day elements with a parsable date (the loop
\* has produced that many when it ends), plus one synthesized entry exactly
\* when none of the produced entries is on the reference day.
C1_DayCount ==
    /\ FirstLoadAt("post") => Len(all_days) = Len(DatedDays)
    /\ FirstLoadAt("returned") =>
         Len(all_days) = Len(DatedDays)
            + (IF \E i \in 1..Len(DatedDays) :
                     i <= Len(all_days) /\ same_day(all_days[i].date, now)
               THEN 0 ELSE 1)

\* C2: in a first load, once a today is set no later step replaces it, and
\* the code after the loop leaves exactly one today: when entries of
\* all_days are on the reference day it is the first of them, and no
\* synthesized entry is appended.
C2_FirstMatchIsToday ==
    [][/\ (pc = "loop" /\ calls = 1 /\ today # None) => today' = today
       /\ (pc = "post" /\ calls = 1) =>
            LET m == Matching(all_days, now)
            IN  /\ Len(today') = 1
                /\ m # {} => /\ today' = Some(all_days[Min(m)])
                             /\ all_days' = all_days]_vars

\* Two different entries on the reference day, the first of them today.
C2_Witness ==
    /\ pc = "returned"
    /\ calls = 1
    /\ \E i, j \in Matching(all_days, now) :
         /\ i < j
         /\ all_days[i] # all_days[j]
         /\ today = Some(all_days[i])
         /\ i = Min(Matching(all_days, now))

\* The day elements of the document and those that are children of the root.
AllDayElements == SelectSeq(Descendants(<<file>>), IsDay)
RootDayElements == SelectSeq(file.kids, IsDay)

\* The Day a day element states: its date and its own counts.
ExpectedDay(n) == DayNew(DateOf(n)[1], OwnCount(n, "worktime"), OwnCount(n, "breaktime"))

RECURSIVE ExpectedDays(_)
ExpectedDays(nodes) ==
    IF nodes = <<>> THEN <<>> ELSE <<ExpectedDay(Head(nodes))>> \o ExpectedDays(Tail(nodes))

\* Every day element is a child of the statistics root, with a parsable date
\* that is not on the reference day.
C3_Document ==
    /\ file.name = "statistics"
    /\ AllDayElements = RootDayElements
    /\ \A i \in DOMAIN RootDayElements :
         /\ HasDate(RootDayElements[i])
         /\ ~same_day(DateOf(RootDayElements[i])[1], now)

\* C3: after a first load of such a document all_days holds the Day of each
\* day element, in document order, with the counts parsed from that element,
\* then one synthesized Day (now, 0, 0), which is today.
C3_DaysThenSynthesized ==
    (FirstLoadAt("returned") /\ C3_Document) =>
        /\ all_days = ExpectedDays(RootDayElements) \o <<DayNew(now, 0, 0)>>
        /\ today = Some(DayNew(now, 0, 0))

\* C4: a first load of a document without day elements leaves exactly the
\* synthesized Day (now, 0, 0) in all_days, and it is today.
C4_NoDaysSynthesizesToday ==
    (pc = "returned" /\ calls = 1 /\ AllDayElements = <<>>) =>
        /\ all_days = <<DayNew(now, 0, 0)>>
        /\ today = Some(DayNew(now, 0, 0))

\* A document without day elements whose worktime element outside any day
\* has left a count in the accumulator.
C4_Witness ==
    /\ FirstLoadAt("returned")
    /\ AllDayElements = <<>>
    /\ \E i \in DOMAIN file.kids : IsCount(file.kids[i]) /\ OwnCount(file, "worktime") # 0
    /\ worktime # 0
    /\ all_days = <<DayNew(now, 0, 0)>>
    /\ today = Some(DayNew(now, 0, 0))

\* Every child of the root is a day element as the file format has it.
PlainDaysDocument == \A i \in DOMAIN file.kids : IsPlainDay(file.kids[i])

\* n has content for name, and none of it parses.
OnlyUnparsable(n, name) ==
    LET texts == CountTexts(n, name)
    IN  texts # <<>> /\ \A j \in DOMAIN texts : ParseU32(texts[j]) = None

\* The number of dated day elements among the first i children of the root:
\* the index in all_days of the Day of child i.
Rank(i) == Len(SelectSeq(SubSeq(file.kids, 1, i), HasDate))

\* C5: in a first load of a document of day elements, the Day of a dated day
\* element whose only worktime (breaktime) content does not parse has
\* worktime (breaktime) 0, whatever day elements precede it.
C5_UnparsableCountLeavesZero ==
    (FirstLoadAt("returned") /\ PlainDaysDocument) =>
        \A i \in DOMAIN file.kids :
            LET n == file.kids[i]
            IN  HasDate(n) =>
                  /\ Rank(i) <= Len(all_days)
                  /\ OnlyUnparsable(n, "worktime") => all_days[Rank(i)].worktime = 0
                  /\ OnlyUnparsable(n, "breaktime") => all_days[Rank(i)].breaktime = 0

\* root without the children that Drop selects.
WithoutKids(root, Drop(_)) == [root EXCEPT !.kids = SelectSeq(@, LAMBDA n : ~Drop(n))]

\* Dated day elements of the file format under statistics, and exactly one
\* unrecognized element among them.
C6_Document ==
    /\ file.name = "statistics"
    /\ \A i \in DOMAIN file.kids :
         \/ IsUnrecognized(file.kids[i])
         \/ IsPlainDay(file.kids[i]) /\ HasDate(file.kids[i])
    /\ Len(SelectSeq(file.kids, IsUnrecognized)) = 1

\* C6: a first load of such a document leaves the all_days and the today
\* that a load of the document without the unrecognized element leaves.
C6_UnrecognizedSiblingIsTransparent ==
    (FirstLoadAt("returned") /\ C6_Document) =>
        LET without == LoadOf(WithoutKids(file, IsUnrecognized), now)
        IN  all_days = without.all_days /\ today = without.today

IsUndatedDay(n) == IsDay(n) /\ ~HasDate(n)

\* C7: a first load of a document of day elements, some of them without a
\* parsable date, leaves the all_days and the today that a load of the
\* document without those elements leaves.
C7_UndatedDayIsSkipped ==
    (/\ FirstLoadAt("returned")
     /\ PlainDaysDocument
     /\ \E i \in DOMAIN file.kids : IsUndatedDay(file.kids[i])) =>
        LET without == LoadOf(WithoutKids(file, IsUndatedDay), now)
        IN  all_days = without.all_days /\ today = without.today

\* C8: whenever a today is set an equal Day is in all_days, and a today is
\* set whenever load_days has returned.
C8_TodayIsInAllDays ==
    /\ today # None => \E i \in DOMAIN all_days : all_days[i] = today[1]
    /\ pc = "returned" => today # None

\* During the loop of a first load: a day element has been made today.
C8_Witness ==
    /\ pc = "loop"
    /\ calls = 1
    /\ today # None
    /\ all_days[Len(all_days)] = today[1]

\* C9: a load whose event stream ends in an error with tags still on the
\* element stack does not return normally.
C9_TruncatedLoadFails ==
    ~(pc = "returned" /\ ended_by = "Err" /\ element_stack # <<>>)

\* C10: a call that cannot open the file panics and leaves all_days and
\* today as they were, and nothing changes them after the panic.
C10_OpenFailureChangesNothing ==
    [][/\ (calls' = calls + 1 /\ ~opened') =>
            /\ pc' = "panicked"
            /\ all_days' = all_days
            /\ today' = today
       /\ pc = "panicked" => (all_days' = all_days /\ today' = today)]_vars

\* A second call failed to open the file; the first call's days are kept.
C10_Witness ==
    /\ pc = "panicked"
    /\ ~opened
    /\ calls = 2
    /\ today # None
    /\ all_days # <<>>

\* ------------------------------------------------------------- termination
\* A step of a call in progress: the loop body on the reader's next item, or
\* the code after the loop.  A call of load_days is left to the caller.
CallStep ==
    \/ StartDocument
    \/ StartElement
    \/ Characters
    \/ EndElement
    \/ Whitespace
    \/ EndDocument
    \/ ParseError
    \/ AfterLoop

\* Number of children of the root element in the documents of LiveSpec.
MaxLiveItems == 1

LiveInit == Init /\ Len(file.kids) <= MaxLiveItems

\* load_days is straight-line code around a `for` loop: a call in progress
\* takes its next step.
LiveSpec == LiveInit /\ [][Next]_vars /\ WF_vars(CallStep)

\* C11: every step of the loop takes exactly the reader's next item (the
\* events left are the tail of those before, or none after an error), the
\* code after the loop runs once and returns, and a call that has entered
\* the loop comes to its end.
C11_SinglePassTerminates ==
    /\ [][/\ pc = "loop" =>
                \/ reader' = Tail(reader) /\ ended_by' \in {"none", "EndDocument"}
                \/ reader' = <<>> /\ ended_by' = "Err" /\ pc' = "post"
          /\ (pc = "loop" /\ pc' = "loop") => Len(reader') = Len(reader) - 1
          /\ pc = "post" => pc' = "returned" /\ Len(all_days') <= Len(all_days) + 1
          /\ pc \in {"returned", "panicked"} => pc' # "post"]_vars
    /\ (pc = "loop") ~> (pc \in {"returned", "panicked"})

\* A first load has returned from a document with a day element without
\* date attribute, passed by the `continue` of line 134.
C11_Witness ==
    /\ FirstLoadAt("returned")
    /\ reader = <<>>
    /\ \E i \in DOMAIN file.kids :
         /\ IsDay(file.kids[i])
         /\ FindAttribute(file.kids[i].attributes, "date") = None

\* Every day element is a child of the root and a day element as the file
\* format has it; the other children of the root are not restricted.
C12_Document ==
    /\ AllDayElements = RootDayElements
    /\ \A i \in DOMAIN RootDayElements : IsPlainDay(RootDayElements[i])

\* C12: when the loop of a first load of such a document has ended, the Days
\* built are those of the dated day elements, each with the date of its own
\* start event and the last parsable worktime and breaktime content of its
\* own children (0 without one); nothing parsed outside the element is in it.
C12_DayCarriesOwnCounts ==
    (FirstLoadAt("post") /\ C12_Document) =>
        all_days = ExpectedDays(SelectSeq(RootDayElements, HasDate))

\* The loop takes the start event of a day element without date attribute.
DatelessDayStart ==
    /\ pc = "loop"
    /\ reader # <<>>
    /\ Head(reader).type = "StartElement"
    /\ Head(reader).name = "day"
    /\ FindAttribute(Head(reader).attributes, "date") = None
    /\ reader' = Tail(reader)

\* C13, as stated: the start event of a day element without date attribute
\* leaves the element stack as it was.
C13_DatelessDayPushesNothing ==
    [][DatelessDayStart => element_stack' = element_stack]_vars

\* C13, amended: the start event of a day element without date attribute
\* pushes the Day tag (line 123 runs before the attribute is looked up) and
\* changes nothing else.
C13_DatelessDayPushesDay ==
    [][DatelessDayStart =>
         /\ element_stack' = Append(element_stack, "Day")
         /\ UNCHANGED <<date, worktime, breaktime, all_days, today, pc>>]_vars

\* The events the reader has yielded in the current call, and the last one.
Consumed == Len(DocumentEvents(file)) - Len(reader)
LastEvent == DocumentEvents(file)[Consumed]

\* The loop has just taken the start of a day element without date
\* attribute, a child of the root.
C13_Witness ==
    /\ pc = "loop"
    /\ Consumed >= 1
    /\ LastEvent.type = "StartElement"
    /\ LastEvent.name = "day"
    /\ FindAttribute(LastEvent.attributes, "date") = None
    /\ element_stack = <<"Statistics", "Day">>

\* The loop takes an end event that pops a Day tag while no date is captured.
DatelessDayEnd ==
    /\ pc = "loop"
    /\ reader # <<>>
    /\ Head(reader).type = "EndElement"
    /\ LastOrNone(element_stack) = "Day"
    /\ date = None
    /\ reader' = Tail(reader)

\* The loop takes the start event of a day element.
DayStart ==
    /\ pc = "loop"
    /\ reader # <<>>
    /\ Head(reader).type = "StartElement"
    /\ Head(reader).name = "day"
    /\ reader' = Tail(reader)

\* C14: an end event that pops a Day tag without a captured date only pops:
\* all_days, today and both accumulators keep their values, and the start of
\* a day element does not change the accumulators either.
C14_SkippedEndKeepsAccumulators ==
    [][/\ DatelessDayEnd =>
            /\ element_stack' = Popped(element_stack)
            /\ UNCHANGED <<all_days, today, worktime, breaktime, date, pc>>
       /\ DayStart => UNCHANGED <<worktime, breaktime>>]_vars

\* A dated day element has started while the accumulators hold the counts
\* left by a day element whose end was skipped.
C14_Witness ==
    /\ pc = "loop"
    /\ calls = 1
    /\ Consumed >= 1
    /\ LastEvent.type = "StartElement"
    /\ LastEvent.name = "day"
    /\ element_stack = <<"Statistics", "Day">>
    /\ date # None
    /\ all_days = <<>>
    /\ IsUndatedDay(file.kids[1])
    /\ worktime # 0
    /\ breaktime # 0

\* C15: the element stack is empty before the first event of a load and
\* empty again when EndDocument is taken, whatever balanced document is read,
\* so the only panic of a load is the failed open.
C15_StackEmptyAtEndDocument ==
    /\ (pc = "loop" /\ Consumed = 0) => element_stack = <<>>
    /\ (pc = "loop" /\ reader # <<>> /\ Head(reader).type = "EndDocument")
            => element_stack = <<>>
    /\ pc = "panicked" => ~opened

\* EndDocument has been taken for a document holding an unrecognized element
\* and a day element without a parsable date nested in a day element.
C15_Witness ==
    /\ FirstLoadAt("post")
    /\ element_stack = <<>>
    /\ \E i \in DOMAIN file.kids : IsUnrecognized(file.kids[i])
    /\ \E i \in DOMAIN file.kids :
         /\ IsDay(file.kids[i])
         /\ \E j \in DOMAIN file.kids[i].kids : IsUndatedDay(file.kids[i].kids[j])

\* The loop takes a character-data event.
CharactersStep ==
    /\ pc = "loop"
    /\ reader # <<>>
    /\ Head(reader).type = "Characters"
    /\ reader' = Tail(reader)

\* C16: a character-data event leaves the element stack, the captured date,
\* all_days and today alone; it may change worktime only under a Worktime
\* tag and breaktime only under a Breaktime tag.
C16_CharactersChangeOneAccumulator ==
    [][CharactersStep =>
         /\ UNCHANGED <<element_stack, date, all_days, today, pc>>
         /\ LastOrNone(element_stack) # "Worktime" => worktime' = worktime
         /\ LastOrNone(element_stack) # "Breaktime" => breaktime' = breaktime]_vars

\* Character data under a Breaktime tag has just replaced breaktime while
\* worktime keeps the count read before.
C16_Witness ==
    /\ pc = "loop"
    /\ Consumed >= 1
    /\ LastEvent.type = "Characters"
    /\ LastOrNone(element_stack) = "Breaktime"
    /\ ParseU32(LastEvent.content) = Some(breaktime)
    /\ breaktime # 0
    /\ worktime # 0

\* The document's structure after its first n events: open holds the index
\* of the start event of every element still open, innermost last; owners
\* holds, for every tag a start event has pushed and the end events since
\* have not popped, the index of that start event.
RECURSIVE ReplayFrom(_, _, _, _, _)
ReplayFrom(events, i, n, open, owners) ==
    IF i > n THEN [open |-> open, owners |-> owners]
    ELSE CASE events[i].type = "StartElement" ->
                ReplayFrom(events, i + 1, n, Append(open, i),
                           IF from_name(events[i].name) = None THEN owners
                           ELSE Append(owners, i))
           [] events[i].type = "EndElement" ->
                ReplayFrom(events, i + 1, n, Popped(open), Popped(owners))
           [] OTHER -> ReplayFrom(events, i + 1, n, open, owners)

Replay(events, n) == ReplayFrom(events, 1, n, <<>>, <<>>)

\* The start event at index n opens a day element without a parsable date
\* that lies in no other day element.
IsBareUndatedDayStart(events, n) ==
    /\ events[n].type = "StartElement"
    /\ events[n].name = "day"
    /\ \/ FindAttribute(events[n].attributes, "date") = None
       \/ FromIso8601(FindAttribute(events[n].attributes, "date")[1].value) = None
    /\ \A r \in {Replay(events, n - 1)} :
         \A k \in DOMAIN r.open : events[r.open[k]].name # "day"

\* The loop takes an end event while the tag on top of the stack is the one
\* pushed by a day element without a parsable date that lies in no other day
\* element.
BareUndatedDayPop ==
    /\ pc = "loop"
    /\ reader # <<>>
    /\ Head(reader).type = "EndElement"
    /\ reader' = Tail(reader)
    /\ \E events \in {DocumentEvents(file)} :
         \E owners \in {Replay(events, Consumed).owners} :
           /\ owners # <<>>
           /\ IsBareUndatedDayStart(events, owners[Len(owners)])

\* C17: a captured date is present only while the stack holds a Day tag, so
\* it is absent whenever the stack is empty, and the pop of the tag of a day
\* element without a parsable date that lies in no other day element appends
\* no Day and designates no today.
C17_DateOnlyUnderDayTag ==
    /\ [](/\ date # None => \E k \in DOMAIN element_stack : element_stack[k] = "Day"
          /\ element_stack = <<>> => date = None)
    /\ [][BareUndatedDayPop =>
            /\ LastOrNone(element_stack) = "Day"
            /\ UNCHANGED <<all_days, today>>]_vars

\* The tag of a day element without a parsable date, in no other day element,
\* has just been popped after the load had appended a Day.
C17_Witness ==
    /\ pc = "loop"
    /\ calls = 1
    /\ Consumed >= 2
    /\ LastEvent.type = "EndElement"
    /\ \E events \in {DocumentEvents(file)} :
         \E owners \in {Replay(events, Consumed - 1).owners} :
           /\ owners # <<>>
           /\ IsBareUndatedDayStart(events, owners[Len(owners)])
    /\ date = None
    /\ Len(all_days) = 1

\* C18: while the events of a balanced document are read, the element stack
\* is never higher than the number of open elements, and every tag on it was
\* pushed by the start of an element that is still open: a tag is popped no
\* later than the end of the element that pushed it.
C18_TagsBelongToOpenElements ==
    pc = "loop" =>
        \A events \in {DocumentEvents(file)} :
          \A r \in {Replay(events, Consumed)} :
            /\ Len(element_stack) <= Len(r.open)
            /\ Len(element_stack) = Len(r.owners)
            /\ \A k \in DOMAIN r.owners :
                 /\ from_name(events[r.owners[k]].name) = Some(element_stack[k])
                 /\ \E j \in DOMAIN r.open : r.open[j] = r.owners[k]

\* A dated day element is still open, its tag is already popped by the end
\* of an unrecognized element inside it, and its Day is already appended.
C18_Witness ==
    /\ pc = "loop"
    /\ calls = 1
    /\ \E events \in {DocumentEvents(file)} :
         \E r \in {Replay(events, Consumed)} :
           \E j \in DOMAIN r.open :
             /\ events[r.open[j]].name = "day"
             /\ \A k \in DOMAIN r.owners : r.owners[k] # r.open[j]
    /\ element_stack = <<"Statistics">>
    /\ Len(all_days) = 1

IsPrefixOf(a, b) == Len(a) <= Len(b) /\ SubSeq(b, 1, Len(a)) = a

\* What a load on a fresh object leaves when the reader reports an error
\* after n events of the document (no error when n is the number of events).
FirstLoadCutAt(n, ref_now) ==
    PostParse(FoldEvents(LoaderState(0, 0, None, <<>>, <<>>, None),
                         SubSeq(DocumentEvents(file), 1, n), ref_now),
              ref_now)

\* The Days the event loop makes of the whole document.
LoopDays(ref_now) ==
    FoldEvents(LoaderState(0, 0, None, <<>>, <<>>, None),
               DocumentEvents(file), ref_now).all_days

\* C19: over the calls of load_days on one object, every step keeps all_days
\* as a prefix of its next value and keeps a designated today; a second load
\* that reads the whole document leaves what the first load left, followed
\* by the document's Days once more, with the first load's today and with no
\* further synthesized Day.
C19_ReloadOnlyAppends ==
    /\ [][/\ IsPrefixOf(all_days, all_days')
          /\ today # None => today' = today]_vars
    /\ [](/\ calls = 2
          /\ opened
          /\ ended_by = "EndDocument"
          /\ pc \in {"post", "returned"}
          => \E n \in 0..Len(DocumentEvents(file)) :
               \E first \in {FirstLoadCutAt(n, now)} :
                  /\ all_days = first.all_days \o LoopDays(now)
                  /\ today = first.today)

\* A second load has returned after reading a document with a day of the
\* reference date: all_days holds that day twice and today is the first.
C19_Witness ==
    /\ calls = 2
    /\ opened
    /\ ended_by = "EndDocument"
    /\ pc = "returned"
    /\ Matching(LoopDays(now), now) # {}
    /\ all_days = LoopDays(now) \o LoopDays(now)
    /\ today = Some(all_days[Min(Matching(all_days, now))])

\* The indexes, among the first n events, of the start events of day
\* elements whose date attribute is present and parsable.
Captures(events, n) ==
    {i \in 1..n :
        /\ events[i].type = "StartElement"
        /\ events[i].name = "day"
        /\ FindAttribute(events[i].attributes, "date") # None
        /\ FromIso8601(FindAttribute(events[i].attributes, "date")[1].value) # None}

\* The date captured by the start event at index i.
CapturedAt(events, i) ==
    FromIso8601(FindAttribute(events[i].attributes, "date")[1].value)

Max(S) == CHOOSE x \in S : \A y \in S : y <= x

\* C20: in a first load the Days appended so far, and the captured date when
\* one is present, are fewer than or as many as the day start events with a
\* parsable date taken so far; and a Day appended by the loop carries the
\* date captured by the latest of those events, which is then cleared.
C20_OneDayPerCapturedDate ==
    /\ [](/\ calls = 1
          /\ \/ pc = "loop"
             \/ pc = "post" /\ ended_by = "EndDocument"
          => Len(all_days) + (IF date = None THEN 0 ELSE 1)
                <= Cardinality(Captures(DocumentEvents(file), Consumed)))
    /\ [][(pc = "loop" /\ all_days' # all_days) =>
            \E events \in {DocumentEvents(file)} :
              \E seen \in {Captures(events, Consumed)} :
                 /\ seen # {}
                 /\ date = CapturedAt(events, Max(seen))
                 /\ Len(all_days') = Len(all_days) + 1
                 /\ SubSeq(all_days', 1, Len(all_days)) = all_days
                 /\ all_days'[Len(all_days')].date = date[1]
                 /\ date' = None]_vars

\* A first load has read a document with two dated day elements, one inside
\* the other, and has appended one Day, with the inner element's date.
C20_Witness ==
    /\ FirstLoadAt("post")
    /\ \E events \in {DocumentEvents(file)} :
         \E seen \in {Captures(events, Len(events))} :
            /\ Cardinality(seen) = 2
            /\ Len(all_days) = 1
            /\ Some(all_days[1].date) = CapturedAt(events, Max(seen))
            /\ CapturedAt(events, Max(seen)) # CapturedAt(events, Min(seen))

====
